---- MODULE Spec2Model ----
(***************************************************************************)
(* A model of SharedPtr<T> (src/shared_ptr/main.cpp): handle objects, the  *)
(* heap-allocated counter cells they point to, the resources they manage   *)
(* and the cleanup routines they store; and of UniquePtr<T, Deleter>       *)
(* (src/unique_ptr/main.cpp), the handle with a single owner.              *)
(*                                                                         *)
(* Every member function is an operator from a world (the handle objects   *)
(* and the heap) to the world, or the worlds, it may leave; the actions    *)
(* install one of them.  Three specifications use them: Spec runs whole    *)
(* operations one after another, SpecAlloc adds the operations whose `new` *)
(* throws, SpecThreads interleaves threads one atomic access at a time.    *)
(* SpecUnique runs the operations of UniquePtr.                            *)
(***************************************************************************)
EXTENDS Integers, Sequences, FiniteSets

\* ---------------------------------------------------------------- bounds
NumHandles == 3        \* SharedPtr objects that may exist at once
NumPtrs    == 2        \* distinct resources (results of `new T`) a run creates
NumThreads == 2        \* threads of SpecThreads

Handles  == 1..NumHandles
Ptrs     == 1..NumPtrs
Threads  == 1..NumThreads
Null     == 0          \* nullptr as a T*
NullCell == 0          \* nullptr as a std::atomic<int>*
Cells    == 1..NumHandles   \* addresses `new std::atomic<int>` may return
Deleters == {"defaultDeleter", "custom"}
None     == "none"

VARIABLES
    live,       \* live[h]: the handle object h is constructed and not destroyed
    ptr_,       \* ptr_[h]: the member T *ptr_
    count_,     \* count_[h]: the member std::atomic<int> *count_
    deleter_,   \* deleter_[h]: the member std::function<void(T*)> deleter_
    cell,       \* cell[c]: the integer stored in counter cell c
    allocated,  \* the counter cells that are allocated and not deleted
    bound,      \* the resources that were handed to a handle
    cleaned,    \* cleaned[p]: how many times a cleanup routine ran on p
    ub,         \* a deleted counter cell was accessed (undefined behaviour)
    pc,         \* pc[t]: where thread t stands inside its operation
    job,        \* job[t]: the operation thread t is running
    unique      \* the UniquePtr objects and their resources (see UniqueInit)

vars == <<live, ptr_, count_, deleter_, cell, allocated, bound, cleaned, ub,
          pc, job, unique>>
threadVars == <<pc, job>>

\* ------------------------------------------------------------ the world
\* The handle objects and the heap as one value.  log collects what an
\* operation does, in program order.
World == [live |-> live, ptr_ |-> ptr_, count_ |-> count_, deleter_ |-> deleter_,
          cell |-> cell, allocated |-> allocated, bound |-> bound,
          cleaned |-> cleaned, ub |-> ub, log |-> <<>>]

Install(W) ==
    /\ live' = W.live
    /\ ptr_' = W.ptr_
    /\ count_' = W.count_
    /\ deleter_' = W.deleter_
    /\ cell' = W.cell
    /\ allocated' = W.allocated
    /\ bound' = W.bound
    /\ cleaned' = W.cleaned
    /\ ub' = W.ub
    /\ unique' = unique

\* One entry of the log.
Ev(e, c, p, d, v) == [ev |-> e, cell |-> c, ptr |-> p, del |-> d, val |-> v]

NoJob == [op |-> "idle", h |-> 0, src |-> 0]

\* The addresses the caller's next `new T` may return: resources are never
\* handed out twice, so one unused address stands for all of them.
FreshPtrs == {p \in Ptrs \ bound : \A q \in Ptrs \ bound : p <= q}

\* The addresses the next `new std::atomic<int>` may return to handle h in
\* world W: one address nobody holds stands for all of them, and an address may
\* also be one that a deleted cell had and another live handle still holds.
FreeCells(h, W) ==
    LET free  == Cells \ W.allocated
        stale == {c \in free : \E g \in Handles \ {h} : W.live[g] /\ W.count_[g] = c}
        clean == free \ stale
    IN  stale \cup {c \in clean : \A e \in clean : c <= e}

\* The objects the next construction may create: the handle objects that do not
\* exist are interchangeable, so one of them stands for all.
NewHandles == {h \in Handles : ~live[h] /\ \A g \in Handles : ~live[g] => h <= g}

\* The values a read of a deleted cell may produce: what matters is whether
\* release() takes its branch (== 1) or not.
FreedReads == {1, 2}

\* The values count_->fetch_sub(1) of handle h may return
reads(h, W) ==
    IF W.count_[h] \in W.allocated THEN {W.cell[W.count_[h]]} ELSE FreedReads

\* ------------------------------------------------- SharedPtr's accessors
\* explicit operator bool() const
asBool(h, W) == W.ptr_[h] # Null

\* T *get() const
get(h, W) == W.ptr_[h]

\* int use_count() const
use_count(h, W) == IF W.count_[h] # NullCell THEN W.cell[W.count_[h]] ELSE 0

\* ---------------------------------------------- the statements of the code
\* the object h comes into being / goes away
construct(h, W) == [W EXCEPT !.live[h] = TRUE]
destruct(h, W) ==
    [W EXCEPT !.live[h] = FALSE, !.ptr_[h] = Null, !.count_[h] = NullCell,
              !.deleter_[h] = "defaultDeleter"]

\* ptr_ = ptr;  (the resource ptr is from now on one that was handed over)
setPtr(h, p, W) ==
    [W EXCEPT !.ptr_[h] = p,
              !.bound = IF p = Null THEN @ ELSE @ \cup {p},
              !.log = Append(@, Ev("store_ptr", NullCell, p, None, 0))]

\* count_ = new std::atomic<int>(1);  with new returning c
newCount(h, c, W) ==
    [W EXCEPT !.count_[h] = c,
              !.cell[c] = 1,
              !.allocated = @ \cup {c},
              !.log = Append(@, Ev("new", c, Null, None, 1))]

\* deleter_ = deleter;
setDeleter(h, d, W) == [W EXCEPT !.deleter_[h] = d]

\* deleter_(ptr_);
runDeleter(h, W) ==
    [W EXCEPT
       !.cleaned = IF W.ptr_[h] # Null
                   THEN [@ EXCEPT ![W.ptr_[h]] = IF @ < 2 THEN @ + 1 ELSE @]
                   ELSE @,
       !.log = Append(@, Ev("deleter", NullCell, W.ptr_[h], W.deleter_[h], 0))]

\* delete count_;
deleteCell(h, W) ==
    [W EXCEPT
       !.cell[W.count_[h]] = 0,
       !.allocated = @ \ {W.count_[h]},
       !.ub = @ \/ W.count_[h] \notin W.allocated,
       !.log = Append(@, Ev("delete", W.count_[h], Null, None, 0))]

\* count_->fetch_sub(1), returning old
fetch_sub(h, W, old) ==
    [W EXCEPT
       !.cell = IF W.count_[h] \in W.allocated
                THEN [@ EXCEPT ![W.count_[h]] = old - 1] ELSE @,
       !.ub   = @ \/ W.count_[h] \notin W.allocated,
       !.log  = Append(@, Ev("fetch_sub", W.count_[h], Null, None, old))]

\* faulty variant, for comparison: an increment whose store is lost
fetch_add_noStore(h, W) ==
    [W EXCEPT
       !.ub   = @ \/ W.count_[h] \notin W.allocated,
       !.log  = Append(@, Ev("fetch_add", W.count_[h], Null, None,
                             W.cell[W.count_[h]]))]

\* count_->fetch_add(1)
fetch_add(h, W) ==
    [W EXCEPT
       !.cell = IF W.count_[h] \in W.allocated
                THEN [@ EXCEPT ![W.count_[h]] = @ + 1] ELSE @,
       !.ub   = @ \/ W.count_[h] \notin W.allocated,
       !.log  = Append(@, Ev("fetch_add", W.count_[h], Null, None,
                             W.cell[W.count_[h]]))]

\* faulty variant, for comparison: ptr_ = other.ptr_ left out
copyMembers_noPtr(h, other, W) ==
    [W EXCEPT !.count_[h] = W.count_[other], !.deleter_[h] = W.deleter_[other]]

\* faulty variant, for comparison: deleter_ = other.deleter_ left out
copyMembers_noDeleter(h, other, W) ==
    [W EXCEPT !.ptr_[h] = W.ptr_[other], !.count_[h] = W.count_[other]]

\* ptr_ = other.ptr_; count_ = other.count_; deleter_ = other.deleter_;
copyMembers(h, other, W) ==
    [W EXCEPT !.ptr_[h] = W.ptr_[other], !.count_[h] = W.count_[other],
              !.deleter_[h] = W.deleter_[other]]

\* ------------------------------------------------ SharedPtr's private part
\* faulty variant, for comparison: the test written on the decremented value, fetch_sub(1) - 1 == 1
lastOwner_onNewValue(old) == old - 1 = 1

\* faulty variant, for comparison: the comparison left out, if (count_ && count_->fetch_sub(1))
lastOwner_truthy(old) == old # 0

\* count_->fetch_sub(1) == 1
lastOwner(old) == old = 1

\* faulty variant, for comparison: the body run whatever fetch_sub returned
releaseWith_noTest(h, W, old) ==
    deleteCell(h, runDeleter(h, fetch_sub(h, W, old)))

\* count_->fetch_sub(1) == 1 having read old, and the body of the if
releaseWith(h, W, old) ==
    IF lastOwner(old) THEN deleteCell(h, runDeleter(h, fetch_sub(h, W, old)))
                      ELSE fetch_sub(h, W, old)

\* void release() noexcept: the worlds it may leave
release(h, W) ==
    IF W.count_[h] = NullCell
    THEN {W}
    ELSE {releaseWith(h, W, old) : old \in reads(h, W)}

\* faulty variant, for comparison: the members copied, the count left as it was
acquire_noIncrement(h, other, W) == copyMembers(h, other, W)

\* void acquire(const SharedPtr &other) noexcept
acquire(h, other, W) ==
    IF W.count_[other] # NullCell
    THEN fetch_add(h, copyMembers(h, other, W))
    ELSE copyMembers(h, other, W)

\* ------------------------------------------------ SharedPtr's public part
\* SharedPtr() : ptr_(nullptr), count_(nullptr), deleter_(defaultDeleter)
SharedPtr_default(h, W) ==
    [construct(h, W) EXCEPT !.ptr_[h] = Null, !.count_[h] = NullCell,
                            !.deleter_[h] = "defaultDeleter"]

\* explicit SharedPtr(T *ptr, std::function<void(T *)> deleter = defaultDeleter)
\*     : ptr_(ptr), count_(new std::atomic<int>(1)), deleter_(deleter)
SharedPtr_bound(h, p, d, W) ==
    {setDeleter(h, d, newCount(h, c, setPtr(h, p, construct(h, W)))) :
        c \in FreeCells(h, W)}

\* the same constructor when new std::atomic<int>(1) throws: no object comes
\* into being, and the resource the caller handed over is held by nobody
SharedPtr_bound_bad_alloc(h, p, d, W) ==
    [W EXCEPT !.bound = IF p = Null THEN @ ELSE @ \cup {p}]

\* ~SharedPtr() noexcept { release(); }
dtor(h, W) == {destruct(h, W1) : W1 \in release(h, W)}

\* SharedPtr(const SharedPtr &other) noexcept { acquire(other); }
SharedPtr_copy(h, other, W) == acquire(h, other, construct(h, W))

\* faulty variant, for comparison: release() left out
assign_noRelease(h, other, W) ==
    IF h # other THEN {acquire(h, other, W)} ELSE {W}

\* faulty variant, for comparison: the test this != &other left out
assign_noSelfCheck(h, other, W) ==
    {acquire(h, other, W1) : W1 \in release(h, W)}

\* SharedPtr &operator=(const SharedPtr &other) noexcept
assign(h, other, W) ==
    IF h # other
    THEN {acquire(h, other, W1) : W1 \in release(h, W)}
    ELSE {W}

\* SharedPtr b(std::move(a)): SharedPtr declares no move constructor, so the
\* rvalue binds to SharedPtr(const SharedPtr &)
SharedPtr_move(h, other, W) == SharedPtr_copy(h, other, W)

\* b = std::move(a): SharedPtr declares no move assignment, so the rvalue
\* binds to operator=(const SharedPtr &)
assign_move(h, other, W) == assign(h, other, W)

\* faulty variant, for comparison: reset that forgets to release what the handle held
reset_noRelease(h, p, d, W) ==
    {setDeleter(h, d, newCount(h, c, setPtr(h, p, W))) : c \in FreeCells(h, W)}

\* faulty variant, for comparison: reset that stores the new pointer before it releases
reset_storeFirst(h, p, d, W) ==
    UNION {{setDeleter(h, d, newCount(h, c, W1)) : c \in FreeCells(h, W1)} :
              W1 \in release(h, setPtr(h, p, W))}

\* void reset(T *ptr = nullptr, std::function<void(T *)> deleter = defaultDeleter)
\*     release(); ptr_ = ptr; count_ = new std::atomic<int>(1); deleter_ = deleter;
reset(h, p, d, W) ==
    UNION {{setDeleter(h, d, newCount(h, c, setPtr(h, p, W1))) : c \in FreeCells(h, W1)} :
              W1 \in release(h, W)}

\* reset when new std::atomic<int>(1) throws: release() and ptr_ = ptr have
\* run, count_ and deleter_ keep their values
reset_bad_alloc(h, p, d, W) == {setPtr(h, p, W1) : W1 \in release(h, W)}

\* faulty variant, for comparison: swap that leaves the cleanup routines where they were
swap_noDeleter(a, b, W) ==
    [W EXCEPT !.ptr_ = [@ EXCEPT ![a] = W.ptr_[b], ![b] = W.ptr_[a]],
              !.count_ = [@ EXCEPT ![a] = W.count_[b], ![b] = W.count_[a]]]

\* void swap(SharedPtr &other) noexcept
swap(a, b, W) ==
    [W EXCEPT !.ptr_ = [@ EXCEPT ![a] = W.ptr_[b], ![b] = W.ptr_[a]],
              !.count_ = [@ EXCEPT ![a] = W.count_[b], ![b] = W.count_[a]],
              !.deleter_ = [@ EXCEPT ![a] = W.deleter_[b], ![b] = W.deleter_[a]]]

\* make_shared<T>(args...): return SharedPtr<T>(new T(args...));
make_shared(h, p, W) == SharedPtr_bound(h, p, "defaultDeleter", W)

\* ------------------------------------------------------------ UniquePtr
\* The UniquePtr objects before any is constructed.  live[u]: the object u
\* exists; ptr_[u], deleter_[u]: its members; bound: the resources handed to a
\* UniquePtr; cleaned[p]: how many times a cleanup routine ran on p; released:
\* the pointers release() returned to the caller.
UniqueInit ==
    [live     |-> [u \in Handles |-> FALSE],
     ptr_     |-> [u \in Handles |-> Null],
     deleter_ |-> [u \in Handles |-> "default_delete"],
     bound    |-> {},
     cleaned  |-> [p \in Ptrs |-> 0],
     released |-> {}]

\* ------------------------------------------------------------ operations
Init ==
    /\ live = [h \in Handles |-> FALSE]
    /\ ptr_ = [h \in Handles |-> Null]
    /\ count_ = [h \in Handles |-> NullCell]
    /\ deleter_ = [h \in Handles |-> "defaultDeleter"]
    /\ cell = [c \in Cells |-> 0]
    /\ allocated = {}
    /\ bound = {}
    /\ cleaned = [p \in Ptrs |-> 0]
    /\ ub = FALSE
    /\ pc = [t \in Threads |-> "idle"]
    /\ job = [t \in Threads |-> NoJob]
    /\ unique = UniqueInit

\* SharedPtr<T> h;
DefaultConstruct(h) ==
    /\ ~ub /\ h \in NewHandles
    /\ Install(SharedPtr_default(h, World))
    /\ UNCHANGED threadVars

\* SharedPtr<T> h(p, d);
Bind(h, p, d) ==
    /\ ~ub /\ h \in NewHandles
    /\ \E W \in SharedPtr_bound(h, p, d, World) : Install(W)
    /\ UNCHANGED threadVars

\* auto h = make_shared<T>(...);
MakeShared(h, p) ==
    /\ ~ub /\ h \in NewHandles
    /\ \E W \in make_shared(h, p, World) : Install(W)
    /\ UNCHANGED threadVars

\* h goes out of scope or is deleted
Destroy(h) ==
    /\ ~ub /\ live[h]
    /\ \E W \in dtor(h, World) : Install(W)
    /\ UNCHANGED threadVars

\* SharedPtr<T> dst(src);
CopyConstruct(dst, src) ==
    /\ ~ub /\ dst \in NewHandles /\ live[src]
    /\ Install(SharedPtr_copy(dst, src, World))
    /\ UNCHANGED threadVars

\* dst = src;
CopyAssign(dst, src) ==
    /\ ~ub /\ live[dst] /\ live[src]
    /\ \E W \in assign(dst, src, World) : Install(W)
    /\ UNCHANGED threadVars

\* SharedPtr<T> dst(std::move(src));
MoveConstruct(dst, src) ==
    /\ ~ub /\ dst \in NewHandles /\ live[src]
    /\ Install(SharedPtr_move(dst, src, World))
    /\ UNCHANGED threadVars

\* dst = std::move(src);
MoveAssign(dst, src) ==
    /\ ~ub /\ live[dst] /\ live[src]
    /\ \E W \in assign_move(dst, src, World) : Install(W)
    /\ UNCHANGED threadVars

\* h.reset(p, d);
Reset(h, p, d) ==
    /\ ~ub /\ live[h]
    /\ \E W \in reset(h, p, d, World) : Install(W)
    /\ UNCHANGED threadVars

\* a.swap(b); or swap(a, b);
Swap(a, b) ==
    /\ ~ub /\ live[a] /\ live[b]
    /\ Install(swap(a, b, World))
    /\ UNCHANGED threadVars

\* (b.swap(a) leaves what a.swap(b) leaves, so each pair is taken once.)
Next ==
    \/ \E h \in Handles : DefaultConstruct(h)
    \/ \E h \in Handles, p \in FreshPtrs : MakeShared(h, p)
    \/ \E h \in Handles, p \in FreshPtrs \cup {Null}, d \in Deleters : Bind(h, p, d)
    \/ \E h \in Handles : Destroy(h)
    \/ \E dst, src \in Handles : CopyConstruct(dst, src)
    \/ \E dst, src \in Handles : CopyAssign(dst, src)
    \/ \E dst, src \in Handles : MoveConstruct(dst, src)
    \/ \E dst, src \in Handles : MoveAssign(dst, src)
    \/ \E h \in Handles, p \in FreshPtrs \cup {Null}, d \in Deleters : Reset(h, p, d)
    \/ \E a, b \in Handles : a <= b /\ Swap(a, b)

\* Whole operations, one after another, every allocation succeeding.
Spec == Init /\ [][Next]_vars

\* ------------------------------------------- allocation failure (bad_alloc)
\* SharedPtr<T> h(p, d); throwing std::bad_alloc
BindFail(h, p, d) ==
    /\ ~ub /\ h \in NewHandles
    /\ Install(SharedPtr_bound_bad_alloc(h, p, d, World))
    /\ UNCHANGED threadVars

\* h.reset(p, d); throwing std::bad_alloc
ResetFail(h, p, d) ==
    /\ ~ub /\ live[h]
    /\ \E W \in reset_bad_alloc(h, p, d, World) : Install(W)
    /\ UNCHANGED threadVars

NextAlloc ==
    \/ Next
    \/ \E h \in Handles, p \in FreshPtrs, d \in Deleters : BindFail(h, p, d)
    \/ \E h \in Handles, p \in FreshPtrs \cup {Null}, d \in Deleters : ResetFail(h, p, d)

\* Every operation, with the allocations of counter cells free to fail.
SpecAlloc == Init /\ [][NextAlloc]_vars

\* ------------------------------------------------------------- threads
\* Handle objects are touched by one thread at a time (a source being copied
\* may be read by several); the counter cells are shared.
Written(h) == \E t \in Threads : job[t].op # "idle" /\ job[t].h = h
Read(h)    == \E t \in Threads : job[t].op # "idle" /\ job[t].src = h

\* The handles exist already when the threads start: every handle is either
\* not constructed or one of the owners of a resource p, whose counter cell (at
\* address p) holds the number of its owners.
InitThreads ==
    \E grp \in [Handles -> {Null} \cup Ptrs] :
        /\ live = [h \in Handles |-> grp[h] # Null]
        /\ ptr_ = grp
        /\ count_ = grp
        /\ deleter_ = [h \in Handles |-> "defaultDeleter"]
        /\ cell = [c \in Cells |-> Cardinality({h \in Handles : grp[h] = c})]
        /\ allocated = {grp[h] : h \in Handles} \ {Null}
        /\ bound = {grp[h] : h \in Handles} \ {Null}
        /\ cleaned = [p \in Ptrs |-> 0]
        /\ ub = FALSE
        /\ pc = [t \in Threads |-> "idle"]
        /\ job = [t \in Threads |-> NoJob]
        /\ unique = UniqueInit

\* thread t enters ~SharedPtr() of h
T_Destroy(t, h) ==
    /\ pc[t] = "idle" /\ live[h] /\ ~Written(h) /\ ~Read(h)
    /\ job' = [job EXCEPT ![t] = [op |-> "destroy", h |-> h, src |-> 0]]
    /\ pc' = [pc EXCEPT ![t] = "fetch_sub"]
    /\ Install(World)

\* release(): if (count_ && count_->fetch_sub(1) == 1)
T_FetchSub(t) ==
    /\ pc[t] = "fetch_sub"
    /\ IF count_[job[t].h] = NullCell
       THEN /\ pc' = [pc EXCEPT ![t] = "done"]
            /\ Install(World)
       ELSE \E old \in reads(job[t].h, World) :
               /\ Install(fetch_sub(job[t].h, World, old))
               /\ pc' = [pc EXCEPT ![t] = IF lastOwner(old) THEN "deleter" ELSE "done"]
    /\ UNCHANGED job

\* release(): deleter_(ptr_);
T_Deleter(t) ==
    /\ pc[t] = "deleter"
    /\ Install(runDeleter(job[t].h, World))
    /\ pc' = [pc EXCEPT ![t] = "delete"]
    /\ UNCHANGED job

\* release(): delete count_;
T_Delete(t) ==
    /\ pc[t] = "delete"
    /\ Install(deleteCell(job[t].h, World))
    /\ pc' = [pc EXCEPT ![t] = "done"]
    /\ UNCHANGED job

\* the destructor returns: the handle object is gone
T_Destroyed(t) ==
    /\ pc[t] = "done" /\ job[t].op = "destroy"
    /\ Install(destruct(job[t].h, World))
    /\ pc' = [pc EXCEPT ![t] = "idle"]
    /\ job' = [job EXCEPT ![t] = NoJob]

\* thread t enters SharedPtr(const SharedPtr &other) for a new object dst
T_Copy(t, dst, src) ==
    /\ pc[t] = "idle" /\ live[src] /\ ~Written(src)
    /\ ~live[dst] /\ ~Written(dst)
    /\ job' = [job EXCEPT ![t] = [op |-> "copy", h |-> dst, src |-> src]]
    /\ pc' = [pc EXCEPT ![t] = "load"]
    /\ Install(World)

\* acquire(): ptr_ = other.ptr_; count_ = other.count_; deleter_ = other.deleter_;
T_Load(t) ==
    /\ pc[t] = "load"
    /\ Install(copyMembers(job[t].h, job[t].src, World))
    /\ pc' = [pc EXCEPT ![t] = "fetch_add"]
    /\ UNCHANGED job

\* acquire(): if (count_) count_->fetch_add(1); and the constructor returns
T_FetchAdd(t) ==
    /\ pc[t] = "fetch_add"
    /\ Install(construct(job[t].h,
                 IF count_[job[t].h] # NullCell THEN fetch_add(job[t].h, World)
                                                ELSE World))
    /\ pc' = [pc EXCEPT ![t] = "idle"]
    /\ job' = [job EXCEPT ![t] = NoJob]

NextThreads ==
    \/ \E t \in Threads, h \in Handles : T_Destroy(t, h)
    \/ \E t \in Threads : T_FetchSub(t)
    \/ \E t \in Threads : T_Deleter(t)
    \/ \E t \in Threads : T_Delete(t)
    \/ \E t \in Threads : T_Destroyed(t)
    \/ \E t \in Threads, dst, src \in Handles : T_Copy(t, dst, src)
    \/ \E t \in Threads : T_Load(t)
    \/ \E t \in Threads : T_FetchAdd(t)

\* Threads destroying and copying handles, one atomic access at a time.
SpecThreads == InitThreads /\ [][NextThreads]_vars

\* ========================================================== UniquePtr<T, D>
\* (src/unique_ptr/main.cpp)  The Deleter values a caller passes: a
\* std::default_delete<T> or the closure of main's test.  Moving or swapping
\* such a value leaves a value that behaves as the original.
UDeleters == {"default_delete", "lambda"}

sharedVars == <<live, ptr_, count_, deleter_, cell, allocated, bound, cleaned, ub>>

\* The UniquePtr objects and their resources as one value; ret is what the
\* operation returns, log what it does, in program order.
UWorld == [live |-> unique.live, ptr_ |-> unique.ptr_, deleter_ |-> unique.deleter_,
           bound |-> unique.bound, cleaned |-> unique.cleaned,
           released |-> unique.released, ret |-> Null, log |-> <<>>]

InstallUnique(W) ==
    /\ unique' = [live |-> W.live, ptr_ |-> W.ptr_, deleter_ |-> W.deleter_,
                  bound |-> W.bound, cleaned |-> W.cleaned,
                  released |-> W.released]
    /\ UNCHANGED sharedVars
    /\ UNCHANGED threadVars

\* The addresses the caller's next `new T` may return (one stands for all).
FreshUPtrs ==
    {p \in Ptrs \ unique.bound : \A q \in Ptrs \ unique.bound : p <= q}

\* The UniquePtr object the next construction creates (one stands for all).
NewUnique ==
    {u \in Handles : ~unique.live[u] /\ \A g \in Handles : ~unique.live[g] => u <= g}

\* explicit operator bool() const noexcept
U_asBool(u, W) == W.ptr_[u] # Null

\* T *get() const noexcept
U_get(u, W) == W.ptr_[u]

\* deleter_(ptr_);
U_runDeleter(u, W) ==
    [W EXCEPT
       !.cleaned[W.ptr_[u]] = IF @ < 2 THEN @ + 1 ELSE @,
       !.log = Append(@, Ev("deleter", NullCell, W.ptr_[u], W.deleter_[u], 0))]

\* ptr_ = p;
U_setPtr(u, p, W) ==
    [W EXCEPT !.ptr_[u] = p,
              !.bound = IF p = Null THEN @ ELSE @ \cup {p},
              !.log = Append(@, Ev("store_ptr", NullCell, p, None, 0))]

\* explicit UniquePtr(T *ptr = nullptr, const Deleter &d = Deleter()) noexcept
UniquePtr_bound(u, p, d, W) ==
    [W EXCEPT !.live[u] = TRUE, !.ptr_[u] = p, !.deleter_[u] = d,
              !.bound = IF p = Null THEN @ ELSE @ \cup {p}]

\* faulty variant, for comparison: other.ptr_ = nullptr left out
UniquePtr_move_noNull(u, other, W) ==
    [W EXCEPT !.live[u] = TRUE, !.ptr_[u] = W.ptr_[other],
              !.deleter_[u] = W.deleter_[other]]

\* UniquePtr(UniquePtr &&other) noexcept
\*     : ptr_(other.ptr_), deleter_(std::move(other.deleter_)) { other.ptr_ = nullptr; }
UniquePtr_move(u, other, W) ==
    [W EXCEPT !.live[u] = TRUE, !.ptr_[u] = W.ptr_[other],
              !.deleter_[u] = W.deleter_[other],
              !.ptr_[other] = Null]

\* void swap(UniquePtr &other) noexcept
U_swap(a, b, W) ==
    [W EXCEPT !.ptr_ = [@ EXCEPT ![a] = W.ptr_[b], ![b] = W.ptr_[a]],
              !.deleter_ = [@ EXCEPT ![a] = W.deleter_[b], ![b] = W.deleter_[a]]]

\* UniquePtr &operator=(UniquePtr &&other) noexcept { swap(other); return *this; }
U_assign_move(u, other, W) == U_swap(u, other, W)

\* faulty variant, for comparison: release() that keeps the pointer, return ptr_;
U_release_noNull(u, W) ==
    [W EXCEPT !.ret = W.ptr_[u],
              !.released = IF W.ptr_[u] = Null THEN @ ELSE @ \cup {W.ptr_[u]}]

\* T *release() noexcept { T *tmp = ptr_; ptr_ = nullptr; return tmp; }
U_release(u, W) ==
    [W EXCEPT !.ret = W.ptr_[u],
              !.ptr_[u] = Null,
              !.released = IF W.ptr_[u] = Null THEN @ ELSE @ \cup {W.ptr_[u]}]

\* void reset(T *p = nullptr) noexcept { if (ptr_) deleter_(ptr_); ptr_ = p; }
U_reset(u, p, W) ==
    U_setPtr(u, p, IF W.ptr_[u] # Null THEN U_runDeleter(u, W) ELSE W)

\* ~UniquePtr() noexcept { reset(); }  and the object is gone
U_dtor(u, W) ==
    [U_reset(u, Null, W) EXCEPT !.live[u] = FALSE,
                                !.deleter_[u] = "default_delete"]

\* make_unique<T>(args...): return UniquePtr<T>(new T(args...));
make_unique(u, p, W) == UniquePtr_bound(u, p, "default_delete", W)

\* UniquePtr<T, D> u(p, d);
U_Bind(u, p, d) ==
    /\ u \in NewUnique
    /\ InstallUnique(UniquePtr_bound(u, p, d, UWorld))

\* auto u = make_unique<T>(...);
U_MakeUnique(u, p) ==
    /\ u \in NewUnique
    /\ InstallUnique(make_unique(u, p, UWorld))

\* u goes out of scope
U_Destroy(u) ==
    /\ unique.live[u]
    /\ InstallUnique(U_dtor(u, UWorld))

\* UniquePtr<T, D> dst(std::move(src));
U_MoveConstruct(dst, src) ==
    /\ dst \in NewUnique /\ unique.live[src]
    /\ InstallUnique(UniquePtr_move(dst, src, UWorld))

\* dst = std::move(src);
U_MoveAssign(dst, src) ==
    /\ unique.live[dst] /\ unique.live[src]
    /\ InstallUnique(U_assign_move(dst, src, UWorld))

\* T *raw = u.release();
U_Release(u) ==
    /\ unique.live[u]
    /\ InstallUnique(U_release(u, UWorld))

\* u.reset(p);
U_Reset(u, p) ==
    /\ unique.live[u]
    /\ InstallUnique(U_reset(u, p, UWorld))

\* a.swap(b); or swap(a, b);
U_Swap(a, b) ==
    /\ unique.live[a] /\ unique.live[b]
    /\ InstallUnique(U_swap(a, b, UWorld))

NextUnique ==
    \/ \E u \in Handles, p \in FreshUPtrs \cup {Null}, d \in UDeleters : U_Bind(u, p, d)
    \/ \E u \in Handles, p \in FreshUPtrs : U_MakeUnique(u, p)
    \/ \E u \in Handles : U_Destroy(u)
    \/ \E dst, src \in Handles : U_MoveConstruct(dst, src)
    \/ \E dst, src \in Handles : U_MoveAssign(dst, src)
    \/ \E u \in Handles : U_Release(u)
    \/ \E u \in Handles, p \in FreshUPtrs \cup {Null} : U_Reset(u, p)
    \/ \E a, b \in Handles : U_Swap(a, b)

\* The operations of UniquePtr, one after another.
SpecUnique == Init /\ [][NextUnique]_vars

\* ================================================================ properties
\* The live handles of world W that reference counter cell c
Group(c, W) == {h \in Handles : W.live[h] /\ W.count_[h] = c}

\* The live handles of world W that hold resource p
Owners(p, W) == {h \in Handles : W.live[h] /\ W.ptr_[h] = p}

\* The positions in W's log at which a cleanup routine was invoked
DeleterEvents(W) == {i \in DOMAIN W.log : W.log[i].ev = "deleter"}

\* The positions in W's log of the events of kind e
EventsOf(W, e) == {i \in DOMAIN W.log : W.log[i].ev = e}

C2_CleanupOnceAtLastDestroy ==
    /\ \A p \in Ptrs :
          /\ cleaned[p] <= 1
          /\ cleaned[p] = 1 => Owners(p, World) = {}
          /\ p \in bound /\ Owners(p, World) = {} => cleaned[p] = 1
    /\ \A h \in Handles :
          live[h] /\ ptr_[h] # Null =>
             \A W \in dtor(h, World) :
                IF Owners(ptr_[h], World) = {h}
                THEN /\ Cardinality(DeleterEvents(W)) = 1
                     /\ \A i \in DeleterEvents(W) :
                           /\ W.log[i].ptr = ptr_[h]
                           /\ W.log[i].del = deleter_[h]
                     /\ W.cleaned[ptr_[h]] = 1
                ELSE /\ DeleterEvents(W) = {}
                     /\ W.cleaned = cleaned

\* C2 witness: every resource was bound, every handle is destroyed, and every
\* resource was cleaned up exactly once.
C2_Witness ==
    /\ bound = Ptrs
    /\ \A h \in Handles : ~live[h]
    /\ \A p \in Ptrs : cleaned[p] = 1
    /\ allocated = {}

\* ------------------------------------------------------------------- C3
\* The threads that are inside the body of release()'s if for cell c
Finishing(c) ==
    {t \in Threads : /\ job[t].op = "destroy"
                     /\ pc[t] \in {"deleter", "delete"}
                     /\ count_[job[t].h] = c}

\* C3: when handles sharing a counter cell are destroyed concurrently, under
\* every interleaving at most one thread enters the body of release()'s if for
\* a cell, the cleanup routine runs at most once per resource and exactly once
\* when no handle of the resource is left, the cell is then deallocated, and no
\* thread accesses or deletes a cell that is already deleted.
C3_ConcurrentDestroyOnce ==
    /\ ~ub
    /\ \A c \in Cells : Cardinality(Finishing(c)) <= 1
    /\ \A p \in Ptrs :
          /\ cleaned[p] <= 1
          /\ p \in bound /\ Owners(p, World) = {} =>
                cleaned[p] = 1 /\ p \notin allocated
          /\ cleaned[p] = 1 =>
                \A h \in Owners(p, World) :
                   \E t \in Threads : job[t].op = "destroy" /\ job[t].h = h

\* C3 witness: two threads have run the destructors of two handles of one
\* group to their end, the resource was cleaned up once and the cell is gone.
C3_Witness ==
    \E t, u \in Threads :
       /\ t # u
       /\ job[t].op = "destroy" /\ job[u].op = "destroy"
       /\ pc[t] = "done" /\ pc[u] = "done"
       /\ job[t].h # job[u].h
       /\ count_[job[t].h] = count_[job[u].h]
       /\ ptr_[job[t].h] # Null
       /\ cleaned[ptr_[job[t].h]] = 1
       /\ count_[job[t].h] \notin allocated

\* ------------------------------------------------------------------- C4
\* handle h holds a resource without a counter cell
ResourceWithoutCell(h, W) == W.ptr_[h] # Null /\ W.count_[h] = NullCell

\* handle h references a counter cell that is deleted, or one that does not
\* count h among its owners
ReleasedCell(h, W) ==
    /\ W.count_[h] # NullCell
    /\ \/ W.count_[h] \notin W.allocated
       \/ W.cell[W.count_[h]] # Cardinality(Group(W.count_[h], W))

\* C4 (as stated): with allocations of the counter cell free to fail in bound
\* construction and in reset, no live handle is left partially owning: none
\* holds a resource without a cell, none references a cell it has released.
C4_NoPartialOwnership ==
    \A h \in Handles :
       live[h] => ~ResourceWithoutCell(h, World) /\ ~ReleasedCell(h, World)

\* ------------------------------------------------------------------- C5
\* C5 (as stated): reset() and reset(nullptr) leave the handle empty: resource
\* pointer null, counter-cell reference null, operator bool false and
\* use_count() == 0.
C5_ResetNullEmpties ==
    \A h \in Handles, d \in Deleters :
       live[h] =>
          \A W \in reset(h, Null, d, World) :
             /\ W.ptr_[h] = Null
             /\ W.count_[h] = NullCell
             /\ ~asBool(h, W)
             /\ use_count(h, W) = 0

\* ------------------------------------------------------------------- C6
\* the moved-from handle src is empty and the count of its former cell c is n
MovedOut(src, c, n, W) ==
    /\ W.ptr_[src] = Null
    /\ W.count_[src] = NullCell
    /\ use_count(src, W) = 0
    /\ W.cell[c] = n

\* C6 (as stated): move construction and move assignment from a handle that
\* owns a share hand the share to the destination, leave the count of the group
\* as it was and leave the moved-from handle empty.
C6_MoveTransfers ==
    \A dst, src \in Handles :
       live[src] /\ count_[src] # NullCell /\ dst # src =>
          /\ dst \in NewHandles =>
                LET W == SharedPtr_move(dst, src, World)
                IN  /\ W.ptr_[dst] = ptr_[src] /\ W.count_[dst] = count_[src]
                    /\ MovedOut(src, count_[src], cell[count_[src]], W)
          /\ live[dst] /\ count_[dst] # count_[src] =>
                \A W \in assign_move(dst, src, World) :
                    /\ W.ptr_[dst] = ptr_[src] /\ W.count_[dst] = count_[src]
                    /\ MovedOut(src, count_[src], cell[count_[src]], W)

\* ------------------------------------------------------------------- C7
\* in world W, left by a copy from src to dst: both return the same pointer
\* from get(), dst is in src's group, every handle of the group reports n, and
\* no cleanup routine was invoked on src's resource
CopyShares(dst, src, n, W) ==
    /\ get(dst, W) = get(src, W)
    /\ get(src, W) = ptr_[src]
    /\ dst \in Group(count_[src], W)
    /\ \A g \in Group(count_[src], W) : use_count(g, W) = n
    /\ W.cleaned[ptr_[src]] = cleaned[ptr_[src]]
    /\ \A i \in DeleterEvents(W) : W.log[i].ptr # ptr_[src]
    /\ ~W.ub

\* C7 (as stated): after copy-constructing or copy-assigning from a non-empty
\* source whose group count was n, source and destination return the same
\* pointer, every handle of the group reports n+1, and the resource is not
\* cleaned up.
C7_CopyAddsOne_AsStated ==
    \A dst, src \in Handles :
       live[src] /\ asBool(src, World) =>
          /\ dst \in NewHandles =>
                CopyShares(dst, src, use_count(src, World) + 1,
                           SharedPtr_copy(dst, src, World))
          /\ live[dst] =>
                \A W \in assign(dst, src, World) :
                   CopyShares(dst, src, use_count(src, World) + 1, W)

\* C7 (amended): as above, with n+1 reported after a copy construction and
\* after a copy assignment to a handle that was not yet in the source's group;
\* a copy assignment to a handle already in the source's group (the source
\* itself included) leaves the count at n.
C7_CopyAddsOne ==
    \A dst, src \in Handles :
       live[src] /\ asBool(src, World) =>
          /\ dst \in NewHandles =>
                CopyShares(dst, src, use_count(src, World) + 1,
                           SharedPtr_copy(dst, src, World))
          /\ live[dst] =>
                \A W \in assign(dst, src, World) :
                   CopyShares(dst, src,
                              IF count_[dst] = count_[src]
                              THEN use_count(src, World)
                              ELSE use_count(src, World) + 1, W)

\* C7 witness: every handle is a copy of one handle; all return the same
\* pointer and report the number of handles, and nothing was cleaned up.
C7_Witness ==
    /\ \A h \in Handles :
          /\ live[h] /\ asBool(h, World)
          /\ get(h, World) = get(1, World)
          /\ count_[h] = count_[1]
          /\ use_count(h, World) = NumHandles
    /\ \A p \in Ptrs : cleaned[p] = 0

\* ------------------------------------------------------------------- C8
\* C8: reset(p) with p non-null on a handle of a group of n >= 2 handles gives
\* the handle a counter cell of its own, newly allocated, holding 1, over p;
\* the other n-1 handles keep their pointer and their cell, which now holds
\* n-1; no cleanup routine is invoked.
C8_ResetLeavesGroup ==
    \A h \in Handles, p \in FreshPtrs, d \in Deleters :
       /\ live[h] /\ count_[h] # NullCell
       /\ Cardinality(Group(count_[h], World)) >= 2
       /\ use_count(h, World) = Cardinality(Group(count_[h], World))
       => \A W \in reset(h, p, d, World) :
             /\ W.ptr_[h] = p /\ W.deleter_[h] = d
             /\ W.count_[h] # count_[h]
             /\ W.count_[h] \notin allocated /\ W.count_[h] \in W.allocated
             /\ Group(W.count_[h], W) = {h}
             /\ use_count(h, W) = 1
             /\ Group(count_[h], W) = Group(count_[h], World) \ {h}
             /\ \A g \in Group(count_[h], W) :
                   /\ W.ptr_[g] = ptr_[g]
                   /\ W.deleter_[g] = deleter_[g]
                   /\ use_count(g, W) = use_count(g, World) - 1
             /\ count_[h] \in W.allocated
             /\ DeleterEvents(W) = {}
             /\ W.cleaned = cleaned
             /\ ~W.ub

\* C8 witness: one handle alone on the second resource with count 1, all the
\* others still sharing the first with count NumHandles - 1, nothing cleaned.
C8_Witness ==
    \E h \in Handles :
       /\ live[h] /\ ptr_[h] = 2 /\ use_count(h, World) = 1
       /\ \A g \in Handles \ {h} :
             /\ live[g] /\ ptr_[g] = 1
             /\ count_[g] # count_[h]
             /\ use_count(g, World) = NumHandles - 1
       /\ \A p \in Ptrs : cleaned[p] = 0

\* ------------------------------------------------------------------- C9
\* C9: reset, with or without a new pointer, on a handle whose use_count() is
\* 1 invokes the stored cleanup routine exactly once, on the old pointer,
\* inside the call and before the new pointer is stored and the new cell is
\* allocated; the old cell is deleted.
C9_ResetSoleOwnerCleansFirst ==
    \A h \in Handles, p \in FreshPtrs \cup {Null}, d \in Deleters :
       live[h] /\ use_count(h, World) = 1 =>
          \A W \in reset(h, p, d, World) :
             /\ Cardinality(DeleterEvents(W)) = 1
             /\ \A i \in DeleterEvents(W) :
                   /\ W.log[i].ptr = ptr_[h]
                   /\ W.log[i].del = deleter_[h]
                   /\ \A j \in EventsOf(W, "store_ptr") \cup EventsOf(W, "new") : i < j
                   /\ \E j \in EventsOf(W, "fetch_sub") : j < i
             /\ Cardinality(EventsOf(W, "store_ptr")) = 1
             /\ ptr_[h] # Null => W.cleaned[ptr_[h]] = cleaned[ptr_[h]] + 1
             /\ \E j \in EventsOf(W, "delete") : W.log[j].cell = count_[h]
             /\ W.ptr_[h] = p
             /\ ~W.ub

\* C9 witness: the only handle holds the second resource with count 1, and the
\* first resource, which it held before, was cleaned up once.
C9_Witness ==
    /\ \E h \in Handles :
          /\ live[h] /\ ptr_[h] = 2 /\ use_count(h, World) = 1
          /\ \A g \in Handles \ {h} : ~live[g]
    /\ cleaned[1] = 1
    /\ cleaned[2] = 0

\* ------------------------------------------------------------------ C10
\* C10: swap between two live handles, empty or not, of one group or of two,
\* exchanges pointer, counter-cell reference and cleanup routine, leaves every
\* other handle, the value of every cell and the set of allocated cells as
\* they were, and invokes no cleanup routine.
C10_SwapExchangesOnly ==
    \A a, b \in Handles :
       live[a] /\ live[b] =>
          LET W == swap(a, b, World)
          IN  /\ W.ptr_[a] = ptr_[b] /\ W.ptr_[b] = ptr_[a]
              /\ W.count_[a] = count_[b] /\ W.count_[b] = count_[a]
              /\ W.deleter_[a] = deleter_[b] /\ W.deleter_[b] = deleter_[a]
              /\ \A g \in Handles \ {a, b} :
                    /\ W.ptr_[g] = ptr_[g]
                    /\ W.count_[g] = count_[g]
                    /\ W.deleter_[g] = deleter_[g]
              /\ W.live = live
              /\ W.cell = cell
              /\ W.allocated = allocated
              /\ W.cleaned = cleaned
              /\ W.log = <<>>
              /\ ~W.ub

\* C10 witness: the first handle holds the second resource with the custom
\* routine, the second handle holds the first resource with the default one,
\* each on the cell allocated with its resource, and the third handle is empty.
C10_Witness ==
    /\ live[1] /\ live[2] /\ live[3]
    /\ ptr_[1] = 2 /\ deleter_[1] = "custom" /\ count_[1] = 2
    /\ ptr_[2] = 1 /\ deleter_[2] = "defaultDeleter" /\ count_[2] = 1
    /\ ptr_[3] = Null /\ count_[3] = NullCell
    /\ use_count(1, World) = 1 /\ use_count(2, World) = 1

\* ------------------------------------------------------------------ C11
\* C11: copy-assigning a live handle to itself, whether it is empty, a sole
\* owner or one of a larger group, leaves its pointer, its counter-cell
\* reference, its cleanup routine and its count as they were, changes nothing
\* else, and executes no statement of release() or acquire().
C11_SelfAssignNoOp ==
    \A h \in Handles :
       live[h] =>
          \A W \in assign(h, h, World) :
             /\ W.ptr_[h] = ptr_[h]
             /\ W.count_[h] = count_[h]
             /\ W.deleter_[h] = deleter_[h]
             /\ use_count(h, W) = use_count(h, World)
             /\ W.cell = cell
             /\ W.allocated = allocated
             /\ W.cleaned = cleaned
             /\ W.log = <<>>
             /\ ~W.ub

\* C11 witness: the three kinds of handle the claim names exist, each of
\* which may be assigned to itself: a sole owner with the custom routine and
\* two handles sharing another resource.
C11_Witness ==
    \E a, b, c \in Handles :
       /\ a # b /\ b # c /\ a # c
       /\ live[a] /\ live[b] /\ live[c]
       /\ asBool(a, World) /\ use_count(a, World) = 1 /\ deleter_[a] = "custom"
       /\ asBool(b, World) /\ count_[b] = count_[c] /\ use_count(b, World) = 2
       /\ assign(a, a, World) = {World}
       /\ assign(b, b, World) = {World}

\* ------------------------------------------------------------------ C12
\* the live UniquePtr objects of world W that hold resource p
Holders(p, W) == {u \in Handles : W.live[u] /\ W.ptr_[u] = p}

\* in world W, left by a move from u into v: u is empty and v holds p
MovedInto(v, u, p, W) ==
    /\ ~U_asBool(u, W)
    /\ U_get(u, W) = Null
    /\ U_get(v, W) = p

\* C12 (as stated): after move construction or move assignment from a
\* UniquePtr u into another UniquePtr v, u is empty (operator bool false,
\* get() null) and v holds what u held, whatever v held before.
C12_UniqueMoveEmptiesSource ==
    \A u, v \in Handles :
       unique.live[u] /\ u # v =>
          /\ v \in NewUnique =>
                MovedInto(v, u, unique.ptr_[u], UniquePtr_move(v, u, UWorld))
          /\ unique.live[v] =>
                MovedInto(v, u, unique.ptr_[u], U_assign_move(v, u, UWorld))

\* ------------------------------------------------------------------ C13
\* C13: as long as release() was not called, after every sequence of bind,
\* move construction, move assignment, swap, reset and destruction of
\* UniquePtr objects: the resources bound and not cleaned up are as many as
\* the non-empty live objects, each is held by exactly one object, no
\* resource is cleaned up twice or while it is held, and once no object is
\* left every bound resource was cleaned up exactly once.
C13_UniqueOneOwner ==
    unique.released = {} =>
       /\ Cardinality({p \in unique.bound : unique.cleaned[p] = 0})
             = Cardinality({u \in Handles : unique.live[u] /\ U_asBool(u, UWorld)})
       /\ \A p \in unique.bound :
             /\ unique.cleaned[p] <= 1
             /\ unique.cleaned[p] = 0 => Cardinality(Holders(p, UWorld)) = 1
             /\ unique.cleaned[p] = 1 => Holders(p, UWorld) = {}
       /\ \A p \in Ptrs \ unique.bound :
             unique.cleaned[p] = 0 /\ Holders(p, UWorld) = {}
       /\ (\A u \in Handles : ~unique.live[u]) =>
             \A p \in unique.bound : unique.cleaned[p] = 1

\* C13 witness: every resource was bound, release() was never called, every
\* object is destroyed and every resource was cleaned up exactly once.
C13_Witness ==
    /\ unique.bound = Ptrs
    /\ unique.released = {}
    /\ \A u \in Handles : ~unique.live[u]
    /\ \A p \in Ptrs : unique.cleaned[p] = 1

\* ------------------------------------------------------------------ C14
\* C14: release() returns the pointer the object held, calls no cleanup
\* routine and leaves the object empty; a reset, with any argument, or a
\* destruction that follows calls no cleanup routine either; and no cleanup
\* routine ever runs on a pointer release() returned, which no object holds.
C14_UniqueReleaseGivesUp ==
    /\ \A u \in Handles :
          unique.live[u] =>
             LET W == U_release(u, UWorld)
             IN  /\ W.ret = unique.ptr_[u]
                 /\ ~U_asBool(u, W) /\ U_get(u, W) = Null
                 /\ W.cleaned = unique.cleaned
                 /\ DeleterEvents(W) = {}
                 /\ DeleterEvents(U_dtor(u, W)) = {}
                 /\ U_dtor(u, W).cleaned = unique.cleaned
                 /\ \A p \in FreshUPtrs \cup {Null} :
                       /\ DeleterEvents(U_reset(u, p, W)) = {}
                       /\ U_reset(u, p, W).cleaned = unique.cleaned
    /\ \A p \in unique.released :
          unique.cleaned[p] = 0 /\ Holders(p, UWorld) = {}

\* C14 witness: the first resource was given back by release(), the object
\* then took the second resource and was destroyed: the second resource was
\* cleaned up, the first was not.
C14_Witness ==
    /\ unique.released = {1}
    /\ unique.bound = Ptrs
    /\ \A u \in Handles : ~unique.live[u]
    /\ unique.cleaned[1] = 0
    /\ unique.cleaned[2] = 1

\* ------------------------------------------------------------------ C15
\* C15 (as stated): in every state of every live SharedPtr, after empty or
\* bound construction (null pointer included), copy, copy assignment, reset
\* with any argument and swap, the counter-cell reference is null if and only
\* if the resource pointer is null.
C15_CellNullIffPtrNull ==
    \A h \in Handles :
       live[h] => (count_[h] = NullCell <=> ptr_[h] = Null)

C17_AssignReleasesOldGroup ==
    \A dst, src \in Handles :
       /\ live[dst] /\ live[src] /\ asBool(dst, World)
       /\ count_[dst] # NullCell /\ count_[src] # NullCell
       /\ count_[dst] # count_[src]
       => \A W \in assign(dst, src, World) :
             /\ IF use_count(dst, World) = 1
                THEN /\ Cardinality(DeleterEvents(W)) = 1
                     /\ \A i \in DeleterEvents(W) :
                           /\ W.log[i].ptr = ptr_[dst]
                           /\ W.log[i].del = deleter_[dst]
                           /\ \A j \in EventsOf(W, "fetch_add") : i < j
                     /\ Cardinality(EventsOf(W, "delete")) = 1
                     /\ \A i \in EventsOf(W, "delete") :
                           /\ W.log[i].cell = count_[dst]
                           /\ \A j \in EventsOf(W, "fetch_add") : i < j
                     /\ count_[dst] \notin W.allocated
                     /\ W.cleaned[ptr_[dst]] = cleaned[ptr_[dst]] + 1
                ELSE /\ DeleterEvents(W) = {}
                     /\ EventsOf(W, "delete") = {}
                     /\ count_[dst] \in W.allocated
                     /\ W.cell[count_[dst]] = cell[count_[dst]] - 1
                     /\ W.cleaned = cleaned
             /\ \E D \in dtor(dst, World) :
                   /\ D.cleaned = W.cleaned
                   /\ D.allocated = W.allocated
                   /\ \A c \in Cells \ {count_[src]} : D.cell[c] = W.cell[c]
             /\ Cardinality(EventsOf(W, "fetch_add")) = 1
             /\ W.count_[dst] = count_[src]
             /\ W.ptr_[dst] = ptr_[src]
             /\ W.deleter_[dst] = deleter_[src]
             /\ W.cell[count_[src]] = cell[count_[src]] + 1
             /\ ~W.ub

\* C17 witness: the first resource was cleaned up once, and two handles share
\* the second with count 2 and no third handle alive: the sole owner of the
\* first resource was assigned from the owner of the second.
C17_Witness ==
    /\ cleaned[1] = 1 /\ cleaned[2] = 0
    /\ \E a, b \in Handles :
          /\ a # b /\ live[a] /\ live[b]
          /\ ptr_[a] = 2 /\ ptr_[b] = 2 /\ count_[a] = count_[b]
          /\ use_count(a, World) = 2
          /\ \A k \in Handles \ {a, b} : ~live[k]

\* ------------------------------------------------------------------ C18
\* C18: copy assignment from another handle object that references the same
\* counter cell executes one decrement, which reads at least 2, and then one
\* increment, and nothing else: the count is never zero in between, no cleanup
\* routine is called, no cell is deleted, and afterwards every member, cell,
\* allocation and cleanup count is what it was.
C18_SameGroupAssignNoOp ==
    \A dst, src \in Handles :
       /\ live[dst] /\ live[src] /\ dst # src
       /\ count_[dst] # NullCell /\ count_[dst] = count_[src]
       => \A W \in assign(dst, src, World) :
             /\ Len(W.log) = 2
             /\ W.log[1].ev = "fetch_sub" /\ W.log[1].cell = count_[dst]
             /\ W.log[1].val >= 2
             /\ W.log[2].ev = "fetch_add" /\ W.log[2].cell = count_[dst]
             /\ W.log[2].val >= 1
             /\ DeleterEvents(W) = {}
             /\ EventsOf(W, "delete") = {}
             /\ [W EXCEPT !.log = <<>>] = World

\* C18 witness: two handles of one group of exactly two exist, with the
\* custom routine, so that either may be assigned from the other, and the
\* assignment leaves the state they are in.
C18_Witness ==
    \E dst, src \in Handles :
       /\ dst # src /\ live[dst] /\ live[src]
       /\ count_[dst] # NullCell /\ count_[dst] = count_[src]
       /\ use_count(dst, World) = 2
       /\ asBool(dst, World) /\ deleter_[dst] = "custom"
       /\ \A W \in assign(dst, src, World) : [W EXCEPT !.log = <<>>] = World

\* ------------------------------------------------------------------ C19
\* the handles whose destructor a thread is running
BeingDestroyed == {job[t].h : t \in {u \in Threads : job[u].op = "destroy"}}

\* the handles whose destructor has done its decrement and not yet returned
Decremented(c) ==
    {job[t].h : t \in {u \in Threads : /\ job[u].op = "destroy"
                                       /\ pc[u] # "fetch_sub"
                                       /\ count_[job[u].h] = c}}

\* C19: while threads copy-construct from handles and destroy other handles of
\* the same groups, under every interleaving of the increments and decrements:
\* as long as a handle that is not being destroyed references a cell (the
\* source of a copy, a finished copy, or a copy whose members are loaded and
\* whose increment is still to come), the cell is allocated and no cleanup
\* routine ran on its resource; the value of a cell is the number of live
\* handles referencing it less those whose destructor already decremented,
\* hence the number of live handles once every thread is done; and no deleted
\* cell is accessed.
C19_CopyVersusDestroy ==
    /\ ~ub
    /\ \A h \in Handles :
          live[h] /\ h \notin BeingDestroyed /\ count_[h] # NullCell =>
             count_[h] \in allocated /\ cleaned[ptr_[h]] = 0
    /\ \A t \in Threads :
          job[t].op = "copy" =>
             /\ count_[job[t].src] \in allocated
             /\ cleaned[ptr_[job[t].src]] = 0
             /\ cell[count_[job[t].src]] >= 1
    /\ \A c \in allocated :
          cell[c] = Cardinality(Group(c, World)) - Cardinality(Decremented(c))
    /\ (\A t \in Threads : pc[t] = "idle") =>
          \A c \in allocated : cell[c] = Cardinality(Group(c, World))

\* C19 witness: of a group of two, one handle is being copied by a thread that
\* has loaded the members and not yet incremented, while another thread has
\* decremented for the other handle: the cell holds 1, is allocated, and
\* nothing was cleaned up.
C19_Witness ==
    \E t, u \in Threads :
       /\ job[t].op = "copy" /\ pc[t] = "fetch_add"
       /\ job[u].op = "destroy" /\ pc[u] = "done"
       /\ job[u].h # job[t].src
       /\ count_[job[u].h] = count_[job[t].src]
       /\ count_[job[t].h] = count_[job[t].src]
       /\ count_[job[t].src] \in allocated
       /\ cell[count_[job[t].src]] = 1
       /\ cleaned[ptr_[job[t].src]] = 0

\* ------------------------------------------------------------------ C20
\* C20 (as stated): destroying or resetting a live handle whose resource
\* pointer is null, however it came to be so (default or bound construction
\* with a null pointer, reset(), a copy of such a handle), calls no cleanup
\* routine: no routine is ever called with a null pointer.
C20_NoCleanupOfNull ==
    \A h \in Handles :
       live[h] /\ ptr_[h] = Null =>
          /\ \A W \in dtor(h, World) :
                \A i \in DeleterEvents(W) : W.log[i].ptr # Null
          /\ \A p \in FreshPtrs \cup {Null}, d \in Deleters :
                \A W \in reset(h, p, d, World) :
                   \A i \in DeleterEvents(W) : W.log[i].ptr # Null

====
